---- MODULE Spec2Model ----
(***************************************************************************)
(* The four 0/1 knapsack solvers of src/algorithms.cpp (KBruteForce,       *)
(* KDynamic, solveILP, KProxy) run one after the other on one loaded       *)
(* instance (capacity, pallets), as a session of main's menu loop does.    *)
(* Recursions are modelled with an explicit call stack, loops one          *)
(* iteration per step.  Vector indices are 0-based as in the source;       *)
(* TLA+ sequences are 1-based, so pallets[index] of the source is          *)
(* pallets[index + 1] here.                                                *)
(***************************************************************************)
EXTENDS Integers, Sequences, FiniteSets, TLC

\* Bounds of the explored instances.
MaxPallets == 3
MaxWeight == 2
MaxProfit == 2
MaxCapacity == 2

\* <climits>, used by solveILP as the initial best weight.
INT_MAX == 2147483647

VARIABLES
    capacity,       \* truck capacity
    pallets,        \* the item list, a sequence of Pallet records
    pc,             \* position of the session: which solver runs, and where
    stack,          \* call stack of the running recursion (last = innermost)
    currentSubset,  \* knapsackRecursive / branchAndBound: ids on the current path
    bestProfit,     \* best profit found so far (KBruteForce's / solveILP's local)
    bestSubset,     \* KBruteForce's bestSubset / solveILP's result.selectedPallets
    bestWeight,     \* solveILP's bestWeight
    dp,             \* KDynamic: profit table, dp[i][w]
    count,          \* KDynamic: item-count table
    i,              \* KDynamic: row of the fill and of the backward walk
    w,              \* KDynamic: column of the fill and of the backward walk
    sorted,         \* KProxy: pallets sorted by ratio
    k,              \* KProxy: position in sorted (0-based)
    totalProfit,    \* KProxy: running profit
    totalWeight,    \* KProxy: running weight
    selectedIDs,    \* KDynamic / KProxy: ids selected so far
    returned        \* what each finished solver returned and reported

vars == <<capacity, pallets, pc, stack, currentSubset, bestProfit, bestSubset,
          bestWeight, dp, count, i, w, sorted, k, totalProfit, totalWeight,
          selectedIDs, returned>>

-----------------------------------------------------------------------------
\* Pallet.h: struct Pallet {id, weight, profit}.
Pallet(id, weight, profit) == [id |-> id, weight |-> weight, profit |-> profit]

\* Ids are unique and caller-assigned; they are neither the vector indices
\* nor ascending, so that a lookup by id is not a lookup by index.
IdAt(pos, n) == 2 * (n - pos) + 1

\* The item lists of the explored instances: every list of at most
\* MaxPallets pallets with weight in 0..MaxWeight and profit in 0..MaxProfit.
Instances ==
    UNION { { [pos \in 1..n |-> Pallet(IdAt(pos, n), wt[pos], pr[pos])] :
                wt \in [1..n -> 0..MaxWeight], pr \in [1..n -> 0..MaxProfit] } :
            n \in 0..MaxPallets }

Size(v) == Len(v)

\* std::vector::pop_back
PopBack(v) == SubSeq(v, 1, Len(v) - 1)

\* std::reverse
Reverse(v) == [pos \in 1..Len(v) |-> v[Len(v) + 1 - pos]]

\* std::find_if(pallets.begin(), pallets.end(), p.id == id): the position of
\* the first pallet with that id, 0 for pallets.end().
FindIf_byIndex(id) ==
    IF id \in 1..Len(pallets) THEN id ELSE 0
FindIf(id) ==
    IF \E pos \in 1..Len(pallets) : pallets[pos].id = id
    THEN CHOOSE pos \in 1..Len(pallets) :
            /\ pallets[pos].id = id
            /\ \A q \in 1..(pos - 1) : pallets[q].id # id
    ELSE 0

\* The "Selected Pallets" loop of each solver: one line "id | profit | weight"
\* per selected id that find_if finds.
RECURSIVE Report(_)
Report(ids) ==
    IF ids = <<>> THEN <<>>
    ELSE LET it == FindIf(ids[1])
         IN  (IF it # 0
              THEN << <<pallets[it].id, pallets[it].profit, pallets[it].weight>> >>
              ELSE <<>>) \o Report(Tail(ids))

NotReturned == [done |-> FALSE, profit |-> 0, weight |-> 0,
                selection |-> <<>>, lines |-> <<>>]

Returned(profit, weight, selection) ==
    [done |-> TRUE, profit |-> profit, weight |-> weight,
     selection |-> selection, lines |-> Report(selection)]

Solvers == {"KBruteForce", "KDynamic", "solveILP", "KProxy"}

\* A call frame of knapsackRecursive / branchAndBound: the by-value
\* parameters (index or idx; weight is remainingCapacity in knapsackRecursive
\* and currWeight in branchAndBound; profit is currentProfit or currProfit)
\* and the place the frame resumes at: "entry", or after the call it made
\* ("excluded", "included").
Frame(index, weightArg, profitArg, at) ==
    [index |-> index, weight |-> weightArg, profit |-> profitArg, at |-> at]

Top == stack[Len(stack)]
Pop == SubSeq(stack, 1, Len(stack) - 1)
\* the caller resumes at `at`, the callee f starts
Call(at, f) == Append([stack EXCEPT ![Len(stack)].at = at], f)

-----------------------------------------------------------------------------
Init ==
    /\ capacity \in 0..MaxCapacity
    /\ pallets \in Instances
    /\ pc = "main_1"
    /\ stack = <<>>
    /\ currentSubset = <<>>
    /\ bestProfit = 0
    /\ bestSubset = <<>>
    /\ bestWeight = 0
    /\ dp = <<>>
    /\ count = <<>>
    /\ i = 0
    /\ w = 0
    /\ sorted = <<>>
    /\ k = 0
    /\ totalProfit = 0
    /\ totalWeight = 0
    /\ selectedIDs = <<>>
    /\ returned = [s \in Solvers |-> NotReturned]

-----------------------------------------------------------------------------
\* case 1: KBruteForce / knapsackRecursive

\* algorithms.cpp:58
FitsRemaining_unchecked(index, remainingCapacity) == TRUE
FitsRemaining(index, remainingCapacity) ==
    pallets[index + 1].weight <= remainingCapacity

\* algorithms.cpp:47-48
BetterSubset_noTie(currentProfit) ==
    currentProfit > bestProfit
BetterSubset(currentProfit) ==
    \/ currentProfit > bestProfit
    \/ (currentProfit = bestProfit /\ Size(currentSubset) < Size(bestSubset))

\* main case 1 calls KBruteForce, which calls knapsackRecursive(pallets, 0,
\* capacity, 0, ...) with bestProfit = 0 and empty subsets.
KBruteForceCall ==
    /\ pc = "main_1"
    /\ bestProfit' = 0
    /\ bestSubset' = <<>>
    /\ currentSubset' = <<>>
    /\ stack' = <<Frame(0, capacity, 0, "entry")>>
    /\ pc' = "knapsackRecursive"
    /\ UNCHANGED <<capacity, pallets, bestWeight, dp, count, i, w, sorted, k,
                   totalProfit, totalWeight, selectedIDs, returned>>

\* index == pallets.size(): compare with the best so far, return.
knapsackRecursiveLeaf ==
    /\ pc = "knapsackRecursive" /\ stack # <<>>
    /\ Top.at = "entry" /\ Top.index = Size(pallets)
    /\ IF BetterSubset(Top.profit)
       THEN bestProfit' = Top.profit /\ bestSubset' = currentSubset
       ELSE UNCHANGED <<bestProfit, bestSubset>>
    /\ stack' = Pop
    /\ UNCHANGED <<capacity, pallets, pc, currentSubset, bestWeight, dp, count,
                   i, w, sorted, k, totalProfit, totalWeight, selectedIDs, returned>>

\* the first recursive call: exclude pallets[index].
knapsackRecursiveExclude ==
    /\ pc = "knapsackRecursive" /\ stack # <<>>
    /\ Top.at = "entry" /\ Top.index # Size(pallets)
    /\ stack' = Call("excluded", Frame(Top.index + 1, Top.weight, Top.profit, "entry"))
    /\ UNCHANGED <<capacity, pallets, pc, currentSubset, bestProfit, bestSubset,
                   bestWeight, dp, count, i, w, sorted, k, totalProfit,
                   totalWeight, selectedIDs, returned>>

\* the exclude call has returned and the pallet fits: push its id, recurse.
knapsackRecursiveInclude ==
    /\ pc = "knapsackRecursive" /\ stack # <<>>
    /\ Top.at = "excluded"
    /\ FitsRemaining(Top.index, Top.weight)
    /\ currentSubset' = Append(currentSubset, pallets[Top.index + 1].id)
    /\ stack' = Call("included",
                     Frame(Top.index + 1,
                           Top.weight - pallets[Top.index + 1].weight,
                           Top.profit + pallets[Top.index + 1].profit, "entry"))
    /\ UNCHANGED <<capacity, pallets, pc, bestProfit, bestSubset, bestWeight, dp,
                   count, i, w, sorted, k, totalProfit, totalWeight, selectedIDs,
                   returned>>

\* the exclude call has returned and the pallet does not fit: return.
knapsackRecursiveSkip ==
    /\ pc = "knapsackRecursive" /\ stack # <<>>
    /\ Top.at = "excluded"
    /\ ~FitsRemaining(Top.index, Top.weight)
    /\ stack' = Pop
    /\ UNCHANGED <<capacity, pallets, pc, currentSubset, bestProfit, bestSubset,
                   bestWeight, dp, count, i, w, sorted, k, totalProfit,
                   totalWeight, selectedIDs, returned>>

\* the include call has returned: pop the id, return.
knapsackRecursiveUndo ==
    /\ pc = "knapsackRecursive" /\ stack # <<>>
    /\ Top.at = "included"
    /\ currentSubset' = PopBack(currentSubset)
    /\ stack' = Pop
    /\ UNCHANGED <<capacity, pallets, pc, bestProfit, bestSubset, bestWeight, dp,
                   count, i, w, sorted, k, totalProfit, totalWeight, selectedIDs,
                   returned>>

\* the outermost knapsackRecursive has returned bestProfit: KBruteForce
\* prints bestSubset and returns finalProfit; its locals die.
KBruteForceReturn ==
    /\ pc = "knapsackRecursive" /\ stack = <<>>
    /\ returned' = [returned EXCEPT
                      !["KBruteForce"] = Returned(bestProfit, 0, bestSubset)]
    /\ bestProfit' = 0
    /\ bestSubset' = <<>>
    /\ currentSubset' = <<>>
    /\ pc' = "main_2"
    /\ UNCHANGED <<capacity, pallets, stack, bestWeight, dp, count, i, w, sorted,
                   k, totalProfit, totalWeight, selectedIDs>>

-----------------------------------------------------------------------------
\* case 2: KDynamic

\* algorithms.cpp:116,119: (n + 1) x (capacity + 1) tables of zeros.
ZeroTable == [row \in 0..Len(pallets) |-> [col \in 0..capacity |-> 0]]

\* algorithms.cpp:128
Inclui_sameRow(row, col) ==
    pallets[row].profit + dp[row][col - pallets[row].weight]
Inclui(row, col) ==
    pallets[row].profit + dp[row - 1][col - pallets[row].weight]

\* algorithms.cpp:129
Exclui(row, col) == dp[row - 1][col]

Min(a, b) == IF a < b THEN a ELSE b

\* algorithms.cpp:124-147: the value of dp[i][w]
DpCell(row, col) ==
    IF pallets[row].weight <= col
    THEN IF Inclui(row, col) > Exclui(row, col) THEN Inclui(row, col)
         ELSE IF Inclui(row, col) < Exclui(row, col) THEN Exclui(row, col)
         ELSE Inclui(row, col)
    ELSE dp[row - 1][col]

\* algorithms.cpp:124-147: the value of count[i][w]
CountCell(row, col) ==
    IF pallets[row].weight <= col
    THEN IF Inclui(row, col) > Exclui(row, col)
         THEN count[row - 1][col - pallets[row].weight] + 1
         ELSE IF Inclui(row, col) < Exclui(row, col) THEN count[row - 1][col]
         ELSE Min(count[row - 1][col - pallets[row].weight] + 1, count[row - 1][col])
    ELSE count[row - 1][col]

\* algorithms.cpp:155: the --i of the backward walk
WalkNext_stay(row) == row
WalkNext(row) == row - 1

\* main case 2 calls KDynamic: allocate the tables, enter the fill loops.
KDynamicCall ==
    /\ pc = "main_2"
    /\ dp' = ZeroTable
    /\ count' = ZeroTable
    /\ i' = 1
    /\ w' = 0
    /\ pc' = "KDynamic_fill"
    /\ UNCHANGED <<capacity, pallets, stack, currentSubset, bestProfit, bestSubset,
                   bestWeight, sorted, k, totalProfit, totalWeight, selectedIDs,
                   returned>>

\* one iteration of the inner fill loop (one cell), with the loop increments.
KDynamicFill ==
    /\ pc = "KDynamic_fill"
    /\ i <= Len(pallets)
    /\ dp' = [dp EXCEPT ![i][w] = DpCell(i, w)]
    /\ count' = [count EXCEPT ![i][w] = CountCell(i, w)]
    /\ IF w + 1 <= capacity
       THEN w' = w + 1 /\ i' = i
       ELSE w' = 0 /\ i' = i + 1
    /\ UNCHANGED <<capacity, pallets, pc, stack, currentSubset, bestProfit,
                   bestSubset, bestWeight, sorted, k, totalProfit, totalWeight,
                   selectedIDs, returned>>

\* the fill loops are over: start the backward walk at (n, capacity).
KDynamicFilled ==
    /\ pc = "KDynamic_fill"
    /\ ~(i <= Len(pallets))
    /\ w' = capacity
    /\ i' = Len(pallets)
    /\ selectedIDs' = <<>>
    /\ pc' = "KDynamic_walk"
    /\ UNCHANGED <<capacity, pallets, stack, currentSubset, bestProfit, bestSubset,
                   bestWeight, dp, count, sorted, k, totalProfit, totalWeight,
                   returned>>

\* one iteration of the reconstruction loop.
KDynamicWalk ==
    /\ pc = "KDynamic_walk"
    /\ i > 0 /\ w > 0
    /\ IF dp[i][w] # dp[i - 1][w]
       THEN /\ selectedIDs' = Append(selectedIDs, pallets[i].id)
            /\ w' = w - pallets[i].weight
       ELSE UNCHANGED <<selectedIDs, w>>
    /\ i' = WalkNext(i)
    /\ UNCHANGED <<capacity, pallets, pc, stack, currentSubset, bestProfit,
                   bestSubset, bestWeight, dp, count, sorted, k, totalProfit,
                   totalWeight, returned>>

\* the walk is over: reverse and print selectedIDs, return dp[n][capacity].
KDynamicReturn ==
    /\ pc = "KDynamic_walk"
    /\ ~(i > 0 /\ w > 0)
    /\ returned' = [returned EXCEPT
                      !["KDynamic"] = Returned(dp[Len(pallets)][capacity], 0,
                                               Reverse(selectedIDs))]
    /\ dp' = <<>>
    /\ count' = <<>>
    /\ i' = 0
    /\ w' = 0
    /\ selectedIDs' = <<>>
    /\ pc' = "main_4"
    /\ UNCHANGED <<capacity, pallets, stack, currentSubset, bestProfit, bestSubset,
                   bestWeight, sorted, k, totalProfit, totalWeight>>

-----------------------------------------------------------------------------
\* case 4: solveILP / branchAndBound.  currentSubset is solveILP's
\* currentSelection (currSelection), bestSubset is result.selectedPallets
\* (bestSelection); a frame's weight and profit are currWeight and currProfit.

\* algorithms.cpp:276
FitsCapacity_ignoringItem(idx, currWeight) ==
    currWeight <= capacity
FitsCapacity_strict(idx, currWeight) ==
    currWeight + pallets[idx + 1].weight < capacity
FitsCapacity(idx, currWeight) ==
    currWeight + pallets[idx + 1].weight <= capacity

\* algorithms.cpp:263-267
BetterSelection_noWeight(currProfit, currWeight) ==
    \/ currProfit > bestProfit
    \/ /\ currProfit = bestProfit
       /\ Size(currentSubset) < Size(bestSubset)
BetterSelection(currProfit, currWeight) ==
    \/ currProfit > bestProfit
    \/ /\ currProfit = bestProfit
       /\ \/ Size(currentSubset) < Size(bestSubset)
          \/ (Size(currentSubset) = Size(bestSubset) /\ currWeight < bestWeight)

\* algorithms.cpp:312-320: the weights of the selected ids that find_if finds.
RECURSIVE SumFoundWeights(_)
SumFoundWeights(ids) ==
    IF ids = <<>> THEN 0
    ELSE (IF FindIf(ids[1]) # 0 THEN pallets[FindIf(ids[1])].weight ELSE 0)
         + SumFoundWeights(Tail(ids))

\* algorithms.cpp:312-320
ResultWeight_best(ids) == bestWeight
ResultWeight(ids) == SumFoundWeights(ids)

\* main case 4 calls solveILP, which calls branchAndBound(pallets, 0,
\* capacity, 0, 0, ...) with bestProfit = 0 and bestWeight = INT_MAX.
solveILPCall ==
    /\ pc = "main_4"
    /\ bestProfit' = 0
    /\ bestWeight' = INT_MAX
    /\ bestSubset' = <<>>
    /\ currentSubset' = <<>>
    /\ stack' = <<Frame(0, 0, 0, "entry")>>
    /\ pc' = "branchAndBound"
    /\ UNCHANGED <<capacity, pallets, dp, count, i, w, sorted, k, totalProfit,
                   totalWeight, selectedIDs, returned>>

\* if (pallets.empty()) return;
branchAndBoundEmpty ==
    /\ pc = "branchAndBound" /\ stack # <<>>
    /\ Top.at = "entry"
    /\ pallets = <<>>
    /\ stack' = Pop
    /\ UNCHANGED <<capacity, pallets, pc, currentSubset, bestProfit, bestSubset,
                   bestWeight, dp, count, i, w, sorted, k, totalProfit,
                   totalWeight, selectedIDs, returned>>

\* idx >= pallets.size(): the three-level comparison, return.
branchAndBoundLeaf ==
    /\ pc = "branchAndBound" /\ stack # <<>>
    /\ Top.at = "entry"
    /\ pallets # <<>>
    /\ Top.index >= Size(pallets)
    /\ IF BetterSelection(Top.profit, Top.weight)
       THEN /\ bestProfit' = Top.profit
            /\ bestWeight' = Top.weight
            /\ bestSubset' = currentSubset
       ELSE UNCHANGED <<bestProfit, bestWeight, bestSubset>>
    /\ stack' = Pop
    /\ UNCHANGED <<capacity, pallets, pc, currentSubset, dp, count, i, w, sorted,
                   k, totalProfit, totalWeight, selectedIDs, returned>>

\* the pallet fits: push its id, recurse with it included.
branchAndBoundInclude ==
    /\ pc = "branchAndBound" /\ stack # <<>>
    /\ Top.at = "entry"
    /\ pallets # <<>>
    /\ ~(Top.index >= Size(pallets))
    /\ FitsCapacity(Top.index, Top.weight)
    /\ currentSubset' = Append(currentSubset, pallets[Top.index + 1].id)
    /\ stack' = Call("included",
                     Frame(Top.index + 1,
                           Top.weight + pallets[Top.index + 1].weight,
                           Top.profit + pallets[Top.index + 1].profit, "entry"))
    /\ UNCHANGED <<capacity, pallets, pc, bestProfit, bestSubset, bestWeight, dp,
                   count, i, w, sorted, k, totalProfit, totalWeight, selectedIDs,
                   returned>>

\* the pallet does not fit: only the exclude call is made.
branchAndBoundPrune ==
    /\ pc = "branchAndBound" /\ stack # <<>>
    /\ Top.at = "entry"
    /\ pallets # <<>>
    /\ ~(Top.index >= Size(pallets))
    /\ ~FitsCapacity(Top.index, Top.weight)
    /\ stack' = Call("excluded", Frame(Top.index + 1, Top.weight, Top.profit, "entry"))
    /\ UNCHANGED <<capacity, pallets, pc, currentSubset, bestProfit, bestSubset,
                   bestWeight, dp, count, i, w, sorted, k, totalProfit,
                   totalWeight, selectedIDs, returned>>

\* the include call has returned: pop the id, make the exclude call.
branchAndBoundExclude ==
    /\ pc = "branchAndBound" /\ stack # <<>>
    /\ Top.at = "included"
    /\ currentSubset' = PopBack(currentSubset)
    /\ stack' = Call("excluded", Frame(Top.index + 1, Top.weight, Top.profit, "entry"))
    /\ UNCHANGED <<capacity, pallets, pc, bestProfit, bestSubset, bestWeight, dp,
                   count, i, w, sorted, k, totalProfit, totalWeight, selectedIDs,
                   returned>>

\* the exclude call has returned: the frame returns.
branchAndBoundReturn ==
    /\ pc = "branchAndBound" /\ stack # <<>>
    /\ Top.at = "excluded"
    /\ stack' = Pop
    /\ UNCHANGED <<capacity, pallets, pc, currentSubset, bestProfit, bestSubset,
                   bestWeight, dp, count, i, w, sorted, k, totalProfit,
                   totalWeight, selectedIDs, returned>>

\* the outermost branchAndBound has returned: solveILP fills in totalProfit
\* and recomputes totalWeight from the selected ids; its locals die.
solveILPReturn ==
    /\ pc = "branchAndBound" /\ stack = <<>>
    /\ returned' = [returned EXCEPT
                      !["solveILP"] = Returned(bestProfit, ResultWeight(bestSubset),
                                               bestSubset)]
    /\ bestProfit' = 0
    /\ bestWeight' = 0
    /\ bestSubset' = <<>>
    /\ currentSubset' = <<>>
    /\ pc' = "main_3"
    /\ UNCHANGED <<capacity, pallets, stack, dp, count, i, w, sorted, k,
                   totalProfit, totalWeight, selectedIDs>>

-----------------------------------------------------------------------------
\* case 3: KProxy

\* static_cast<double>(profit) / weight in IEEE arithmetic: a quotient for
\* weight > 0, +infinity for profit > 0 and weight = 0, NaN for 0 / 0.
IsNaN(p) == p.weight = 0 /\ p.profit = 0
IsInf(p) == p.weight = 0 /\ p.profit > 0

\* algorithms.cpp:197-201: the comparator, r1 > r2.  Every comparison with a
\* NaN is false; quotients of the small integers explored here are compared
\* exactly by cross-multiplication.
RatioGreater_ascending(a, b) ==
    IF IsNaN(a) \/ IsNaN(b) THEN FALSE
    ELSE IF IsInf(b) THEN ~IsInf(a)
    ELSE IF IsInf(a) THEN FALSE
    ELSE a.profit * b.weight < b.profit * a.weight
RatioGreater(a, b) ==
    IF IsNaN(a) \/ IsNaN(b) THEN FALSE
    ELSE IF IsInf(a) THEN ~IsInf(b)
    ELSE IF IsInf(b) THEN FALSE
    ELSE a.profit * b.weight > b.profit * a.weight

Arrangements(n) ==
    { f \in [1..n -> 1..n] : \A a, b \in 1..n : a # b => f[a] # f[b] }

\* algorithms.cpp:194-201: what std::sort may leave in `sorted`.  std::sort
\* is not stable, so pallets of equal ratio come out in any order; with a
\* NaN ratio the comparator is no strict weak ordering, the call is
\* undefined, and any arrangement of the pallets may result.
SortOutcomes ==
    { [pos \in 1..Len(pallets) |-> pallets[f[pos]]] :
        f \in { g \in Arrangements(Len(pallets)) :
                  \/ \E pos \in 1..Len(pallets) : IsNaN(pallets[pos])
                  \/ \A a, b \in 1..Len(pallets) :
                        a < b => ~RatioGreater(pallets[g[b]], pallets[g[a]]) } }

\* algorithms.cpp:208
Admits_ignoringItem(p) == totalWeight <= capacity
Admits(p) == totalWeight + p.weight <= capacity

\* main case 3 calls KProxy: copy and sort the pallets, zero the totals.
KProxyCall ==
    /\ pc = "main_3"
    /\ sorted' \in SortOutcomes
    /\ totalProfit' = 0
    /\ totalWeight' = 0
    /\ selectedIDs' = <<>>
    /\ k' = 0
    /\ pc' = "KProxy"
    /\ UNCHANGED <<capacity, pallets, stack, currentSubset, bestProfit, bestSubset,
                   bestWeight, dp, count, i, w, returned>>

\* one iteration of the range-for over sorted.
KProxyStep ==
    /\ pc = "KProxy"
    /\ k < Len(sorted)
    /\ IF Admits(sorted[k + 1])
       THEN /\ selectedIDs' = Append(selectedIDs, sorted[k + 1].id)
            /\ totalWeight' = totalWeight + sorted[k + 1].weight
            /\ totalProfit' = totalProfit + sorted[k + 1].profit
       ELSE UNCHANGED <<selectedIDs, totalWeight, totalProfit>>
    /\ k' = k + 1
    /\ UNCHANGED <<capacity, pallets, pc, stack, currentSubset, bestProfit,
                   bestSubset, bestWeight, dp, count, i, w, sorted, returned>>

\* the loop is over: print the selection and the weight, return totalProfit.
\* main reads option 0 next and leaves.
KProxyReturn ==
    /\ pc = "KProxy"
    /\ ~(k < Len(sorted))
    /\ returned' = [returned EXCEPT
                      !["KProxy"] = Returned(totalProfit, totalWeight, selectedIDs)]
    /\ sorted' = <<>>
    /\ k' = 0
    /\ totalProfit' = 0
    /\ totalWeight' = 0
    /\ selectedIDs' = <<>>
    /\ pc' = "main_0"
    /\ UNCHANGED <<capacity, pallets, stack, currentSubset, bestProfit, bestSubset,
                   bestWeight, dp, count, i, w>>

-----------------------------------------------------------------------------
Next ==
    \/ KBruteForceCall
    \/ knapsackRecursiveLeaf
    \/ knapsackRecursiveExclude
    \/ knapsackRecursiveInclude
    \/ knapsackRecursiveSkip
    \/ knapsackRecursiveUndo
    \/ KBruteForceReturn
    \/ KDynamicCall
    \/ KDynamicFill
    \/ KDynamicFilled
    \/ KDynamicWalk
    \/ KDynamicReturn
    \/ solveILPCall
    \/ branchAndBoundEmpty
    \/ branchAndBoundLeaf
    \/ branchAndBoundInclude
    \/ branchAndBoundPrune
    \/ branchAndBoundExclude
    \/ branchAndBoundReturn
    \/ solveILPReturn
    \/ KProxyCall
    \/ KProxyStep
    \/ KProxyReturn

Spec == Init /\ [][Next]_vars

\* The program is sequential: whenever a step is possible it is taken.
FairSpec == Spec /\ WF_vars(Next)

-----------------------------------------------------------------------------
\* What the claims speak about: subsets of the item list, by position.

Positions == 1..Len(pallets)

RECURSIVE SumWeight(_)
SumWeight(S) ==
    IF S = {} THEN 0
    ELSE LET x == CHOOSE y \in S : TRUE
         IN  pallets[x].weight + SumWeight(S \ {x})

RECURSIVE SumProfit(_)
SumProfit(S) ==
    IF S = {} THEN 0
    ELSE LET x == CHOOSE y \in S : TRUE
         IN  pallets[x].profit + SumProfit(S \ {x})

Feasible == { S \in SUBSET Positions : SumWeight(S) <= capacity }

Optimum == CHOOSE best \in { SumProfit(S) : S \in Feasible } :
              \A S \in Feasible : SumProfit(S) <= best

Optimal == { S \in Feasible : SumProfit(S) = Optimum }

NoDuplicates(ids) ==
    \A a, b \in 1..Len(ids) : a # b => ids[a] # ids[b]

\* the positions of the pallets whose ids are in ids
PositionsOf(ids) ==
    { pos \in Positions : \E a \in 1..Len(ids) : ids[a] = pallets[pos].id }

\* every id of ids is the id of a pallet
KnownIds(ids) ==
    \A a \in 1..Len(ids) : \E pos \in Positions : pallets[pos].id = ids[a]

WeightsPositive == \A pos \in Positions : pallets[pos].weight > 0

BF == returned["KBruteForce"]
DP == returned["KDynamic"]
ILP == returned["solveILP"]
GR == returned["KProxy"]

-----------------------------------------------------------------------------
\* C1: the profits returned by KDynamic and KBruteForce are equal, and both
\* are the maximum total profit over the subsets of total weight <= capacity.
C1_ExactProfitsAgree ==
    /\ BF.done => BF.profit = Optimum
    /\ DP.done => DP.profit = Optimum
    /\ (BF.done /\ DP.done) => DP.profit = BF.profit

\* both solvers have returned on an instance where some subset does not fit
\* and the optimum takes more than one pallet
C1_Witness ==
    /\ BF.done /\ DP.done
    /\ Feasible # SUBSET Positions
    /\ \E S \in Optimal : Cardinality(S) >= 2
    /\ \A S \in Optimal : Cardinality(S) >= 1

\* C2: solveILP's totalProfit equals the profit returned by KBruteForce and
\* by KDynamic on the same instance; only the reported subset may differ.
C2_ILPProfitAgrees ==
    ILP.done => /\ BF.done /\ DP.done
                /\ ILP.profit = BF.profit
                /\ ILP.profit = DP.profit

\* solveILP and KBruteForce report different subsets of the same profit
C2_Witness ==
    /\ ILP.done /\ BF.done
    /\ ILP.profit = BF.profit /\ ILP.profit > 0
    /\ PositionsOf(ILP.selection) # PositionsOf(BF.selection)

\* C3: the selection solveILP returns is feasible and has maximum profit; no
\* feasible subset of that profit has fewer items; none of that profit and
\* that number of items is lighter.
C3_ILPThreeLevelOptimal ==
    ILP.done =>
        LET Sel == PositionsOf(ILP.selection)
        IN  /\ KnownIds(ILP.selection)
            /\ Cardinality(Sel) = Len(ILP.selection)
            /\ Sel \in Optimal
            /\ \A T \in Optimal :
                  /\ Cardinality(Sel) <= Cardinality(T)
                  /\ Cardinality(T) = Cardinality(Sel)
                        => SumWeight(Sel) <= SumWeight(T)

\* solveILP has returned where the optimum is reached by a subset with more
\* items and by one with as many items and more weight than the selection
C3_Witness ==
    /\ ILP.done
    /\ \E T \in Optimal : Cardinality(T) > Len(ILP.selection)
    /\ \E T \in Optimal : /\ Cardinality(T) = Len(ILP.selection)
                          /\ SumWeight(T) > ILP.weight

\* C4: in solveILP's result totalProfit and totalWeight are the sums of the
\* profits and weights of the pallets whose ids are selected, totalWeight is
\* at most capacity, and no id is selected twice.
C4_ILPResultConsistent ==
    ILP.done =>
        /\ KnownIds(ILP.selection)
        /\ NoDuplicates(ILP.selection)
        /\ ILP.profit = SumProfit(PositionsOf(ILP.selection))
        /\ ILP.weight = SumWeight(PositionsOf(ILP.selection))
        /\ ILP.weight <= capacity

\* solveILP has returned a selection of two or more pallets of differing weight
C4_Witness ==
    /\ ILP.done
    /\ Len(ILP.selection) >= 2
    /\ \E a, b \in PositionsOf(ILP.selection) : pallets[a].weight # pallets[b].weight

\* C5: with every weight > 0 the profit KProxy returns is at most the profit
\* KDynamic returns.
C5_GreedyAtMostDynamic ==
    (WeightsPositive /\ GR.done) => (DP.done /\ GR.profit <= DP.profit)

\* KProxy has returned strictly less than KDynamic, having selected something
C5_Witness ==
    /\ WeightsPositive
    /\ GR.done /\ DP.done
    /\ GR.selection # <<>>
    /\ GR.profit < DP.profit

\* C6: when KBruteForce's search is over, bestSubset weighs at most capacity,
\* its profits sum to the returned bestProfit, and no subset within capacity
\* of that profit has fewer items.
C6_BruteForceSubset ==
    BF.done =>
        LET Sel == PositionsOf(BF.selection)
        IN  /\ KnownIds(BF.selection)
            /\ Cardinality(Sel) = Len(BF.selection)
            /\ SumWeight(Sel) <= capacity
            /\ SumProfit(Sel) = BF.profit
            /\ \A T \in Feasible :
                  SumProfit(T) = BF.profit => Cardinality(Sel) <= Cardinality(T)

\* KBruteForce has returned where a larger subset reaches the same profit
C6_Witness ==
    /\ BF.done
    /\ BF.selection # <<>>
    /\ \E T \in Feasible : /\ SumProfit(T) = BF.profit
                           /\ Cardinality(T) > Len(BF.selection)

\* every solver that has returned (KProxy only on positive weights) returned
\* profit 0 and an empty selection
AllReturnedZero ==
    /\ \A s \in {"KBruteForce", "KDynamic", "solveILP"} :
          returned[s].done =>
              /\ returned[s].profit = 0
              /\ returned[s].selection = <<>>
              /\ returned[s].lines = <<>>
    /\ (GR.done /\ WeightsPositive) =>
          /\ GR.profit = 0
          /\ GR.selection = <<>>
          /\ GR.lines = <<>>

\* C7 as stated: with capacity 0 and a non-empty list of valid items every
\* solver returns profit 0 and an empty selection.
C7_CapacityZeroAsStated ==
    (capacity = 0 /\ pallets # <<>>) => AllReturnedZero

\* C7 amended: with capacity 0 and a non-empty list of valid items in which
\* every pallet of weight 0 has profit 0, every solver returns profit 0 and
\* an empty selection.
C7_CapacityZero ==
    (/\ capacity = 0
     /\ pallets # <<>>
     /\ \A pos \in Positions : pallets[pos].weight = 0 => pallets[pos].profit = 0)
    => AllReturnedZero

\* all four solvers have returned on capacity 0 with profitable pallets
C7_Witness ==
    /\ capacity = 0
    /\ Len(pallets) >= 2
    /\ WeightsPositive
    /\ \E pos \in Positions : pallets[pos].profit > 0
    /\ \A s \in Solvers : returned[s].done

\* C8: with an empty item list every solver returns profit 0 and an empty
\* selection; solveILP returns totalWeight 0, branchAndBound returns at its
\* pallets.empty() test, so that the leaf comparison never replaces the
\* sentinel INT_MAX, which does not reach the result.
C8_EmptyList ==
    pallets = <<>> =>
        /\ \A s \in Solvers :
              returned[s].done =>
                  /\ returned[s].profit = 0
                  /\ returned[s].selection = <<>>
                  /\ returned[s].lines = <<>>
        /\ ILP.done => ILP.weight = 0
        /\ pc = "branchAndBound" =>
              /\ bestWeight = INT_MAX
              /\ bestProfit = 0
              /\ bestSubset = <<>>
              /\ Len(stack) <= 1

\* all four solvers have returned on the empty list with room in the truck
C8_Witness ==
    /\ pallets = <<>>
    /\ capacity > 0
    /\ \A s \in Solvers : returned[s].done

\* C9: every solver call terminates: the session reaches the point where all
\* four solvers have returned.
C9_Terminates == <>(pc = "main_0" /\ \A s \in Solvers : returned[s].done)

\* all four solvers have returned on a full-length list, both recursions
\* having gone through include branches
C9_Witness ==
    /\ pc = "main_0"
    /\ \A s \in Solvers : returned[s].done
    /\ Len(pallets) >= 3
    /\ Len(BF.selection) >= 2

\* C10: the selection KDynamic reconstructs achieves the returned profit: its
\* profits sum to dp[n][capacity], its weights to at most capacity, and w is
\* never negative during the walk.
C10_WalkAchievesProfit ==
    /\ pc = "KDynamic_walk" => w >= 0
    /\ DP.done =>
          /\ KnownIds(DP.selection)
          /\ NoDuplicates(DP.selection)
          /\ SumProfit(PositionsOf(DP.selection)) = DP.profit
          /\ SumWeight(PositionsOf(DP.selection)) <= capacity

\* the backward walk of KDynamic is over (the loop condition has failed) and
\* KDynamic is about to report selectedIDs
WalkOver == pc = "KDynamic_walk" /\ ~(i > 0 /\ w > 0)

\* C11: KDynamic resolves profit ties in favour of fewer items: once the
\* tables are filled, count[n][capacity] is the least number of items of a
\* subset within capacity whose profit is dp[n][capacity], and the selection
\* KDynamic reconstructs and reports has exactly count[n][capacity] items.
C11_FewestItemsReported ==
    /\ pc = "KDynamic_walk" =>
          /\ \E S \in Feasible :
                /\ SumProfit(S) = dp[Len(pallets)][capacity]
                /\ Cardinality(S) = count[Len(pallets)][capacity]
          /\ \A S \in Feasible :
                SumProfit(S) = dp[Len(pallets)][capacity]
                    => count[Len(pallets)][capacity] <= Cardinality(S)
    /\ WalkOver => Len(selectedIDs) = count[Len(pallets)][capacity]

\* the ids KProxy has selected so far
SelectedSet == { selectedIDs[a] : a \in 1..Len(selectedIDs) }

\* the pallets (by position in pallets) that KProxy selected among the first
\* n of sorted
SelectedAmongFirst(n) ==
    { pos \in Positions :
        \E q \in 1..n : sorted[q].id = pallets[pos].id /\ sorted[q].id \in SelectedSet }

\* C12: KProxy walks the pallets in non-increasing profit/weight order and
\* admits a pallet exactly when the weight admitted before it plus its own
\* weight is at most capacity, a skipped pallet staying skipped; so, for
\* weights > 0, the selection weighs at most capacity, the returned profit is
\* the sum of the selected profits, no pallet is selected twice, and if every
\* pallet alone weighs more than capacity the result is profit 0 with an
\* empty selection.
C12_GreedyWalk ==
    WeightsPositive =>
        /\ pc = "KProxy" =>
              /\ Len(sorted) = Len(pallets)
              /\ { sorted[q] : q \in 1..Len(sorted) }
                    = { pallets[pos] : pos \in Positions }
              /\ \A a, b \in 1..Len(sorted) :
                    a < b => sorted[a].profit * sorted[b].weight
                                >= sorted[b].profit * sorted[a].weight
              /\ \A q \in 1..Len(sorted) :
                    IF q <= k
                    THEN sorted[q].id \in SelectedSet
                            <=> SumWeight(SelectedAmongFirst(q - 1)) + sorted[q].weight
                                    <= capacity
                    ELSE sorted[q].id \notin SelectedSet
              /\ NoDuplicates(selectedIDs)
              /\ totalWeight = SumWeight(PositionsOf(selectedIDs))
              /\ totalProfit = SumProfit(PositionsOf(selectedIDs))
              /\ totalWeight <= capacity
        /\ GR.done =>
              /\ KnownIds(GR.selection)
              /\ NoDuplicates(GR.selection)
              /\ GR.weight = SumWeight(PositionsOf(GR.selection))
              /\ GR.weight <= capacity
              /\ GR.profit = SumProfit(PositionsOf(GR.selection))
              /\ (\A pos \in Positions : pallets[pos].weight > capacity)
                    => (GR.profit = 0 /\ GR.selection = <<>>)

\* KProxy has walked a list of differing ratios to its end, having skipped a
\* pallet and admitted a later one
C12_Witness ==
    /\ WeightsPositive
    /\ pc = "KProxy" /\ k = Len(sorted)
    /\ \E a, b \in 1..Len(sorted) :
          /\ a < b
          /\ sorted[a].id \notin SelectedSet
          /\ sorted[b].id \in SelectedSet
          /\ sorted[a].profit * sorted[b].weight > sorted[b].profit * sorted[a].weight

\* the frames of the running recursion whose pallet is included on the
\* current path: those that made (and have not yet undone) the include call
IncludedFrames == { j \in 1..Len(stack) : stack[j].at = "included" }

\* the ids of the pallets of the included frames below frame n, outermost first
RECURSIVE IncludedIds(_)
IncludedIds(n) ==
    IF n = 0 THEN <<>>
    ELSE IncludedIds(n - 1) \o
         (IF stack[n].at = "included" THEN <<pallets[stack[n].index + 1].id>> ELSE <<>>)

\* the weight of the pallets included by the frames below frame j
WeightBelow(j) ==
    SumWeight({ stack[r].index + 1 : r \in { q \in IncludedFrames : q < j } })

\* C13: in both recursions no reachable frame exceeds the capacity:
\* branchAndBound runs with currWeight <= capacity and knapsackRecursive with
\* remainingCapacity >= 0, both being the capacity used or left by the
\* included pallets; frame j works on index j - 1; the current selection is
\* exactly the ids of the pallets included at the indices below, and it is
\* what it was at the call when a frame has returned, empty at the end.
C13_FramesWithinCapacity ==
    pc \in {"knapsackRecursive", "branchAndBound"} =>
        /\ \A j \in 1..Len(stack) :
              /\ stack[j].index = j - 1
              /\ stack[j].index <= Len(pallets)
              /\ j < Len(stack) => stack[j].at \in {"excluded", "included"}
              /\ pc = "branchAndBound" =>
                    /\ stack[j].weight <= capacity
                    /\ stack[j].weight = WeightBelow(j)
              /\ pc = "knapsackRecursive" =>
                    /\ stack[j].weight >= 0
                    /\ stack[j].weight = capacity - WeightBelow(j)
        /\ currentSubset = IncludedIds(Len(stack))
        /\ NoDuplicates(currentSubset)
        /\ stack = <<>> => currentSubset = <<>>

\* branchAndBound is about to skip the include branch of a pallet that does
\* not fit on top of the pallets already included
C13_Witness ==
    /\ pc = "branchAndBound"
    /\ Len(stack) >= 2
    /\ Top.at = "entry"
    /\ Top.index < Len(pallets)
    /\ currentSubset # <<>>
    /\ Top.weight > 0
    /\ Top.weight + pallets[Top.index + 1].weight > capacity

====
